---- MODULE Spec2Model ----
(***************************************************************************)
(* Model of django_vite/templatetags/django_vite.py: the singleton         *)
(* DjangoViteAssetLoader, its manifest load, and the template tags that    *)
(* turn a Vite manifest into <script> and <link> tags.                     *)
(*                                                                         *)
(* Python exceptions are modelled as results whose kind names the          *)
(* exception: the three RuntimeErrors of the source are told apart by the  *)
(* message they carry (ManifestLoadError, AssetNotFoundError,              *)
(* PolyfillNotFoundError); KeyError, AttributeError and RecursionError are *)
(* the interpreter's own.                                                  *)
(***************************************************************************)
EXTENDS Integers, Sequences, FiniteSets, TLC

VARIABLES DEV_MODE, file, _instance, _manifest, reads, already_processed, last, probe

vars == <<DEV_MODE, file, _instance, _manifest, reads, already_processed, last, probe>>

---------------------------------------------------------------------------
(* Bounds of the model. *)

\* Total number of import edges listed in a generated manifest.
MaxImports == 2
\* Total number of css paths listed in a generated manifest.
MaxCss == 2
\* Stand-in for the interpreter's recursion limit (sys.getrecursionlimit()).
RecursionLimit == 4

---------------------------------------------------------------------------
(* Paths, manifests and the manifest file. *)

KeySeq == <<"a.js", "b.js", "c.js">>
Keys == {KeySeq[i] : i \in 1..Len(KeySeq)}
MissingPath == "missing.js"
PolyfillKey == "vite/legacy-polyfills"
Paths == Keys \cup {MissingPath}
CssFiles == {"x.css", "y.css"}

\* Order in which the keys of the JSON object appear in the manifest file
\* (a dict keeps insertion order).
ManifestOrder == KeySeq \o <<PolyfillKey>>

\* Output file of an entry ("file" of the manifest entry): a hashed name.
OutputFile(path) == [built |-> path]

\* An entry is a function whose domain holds "file" and, optionally,
\* "imports" and "css".
EntryOf(path, hasImports, imports, hasCss, css) ==
    [k \in {"file"} \cup (IF hasImports THEN {"imports"} ELSE {})
                    \cup (IF hasCss THEN {"css"} ELSE {}) |->
        IF k = "file" THEN OutputFile(path)
        ELSE IF k = "imports" THEN imports ELSE css]

\* Every way to give each of the first n keys a list over S, the lists
\* holding no more than budget items between them.
RECURSIVE ListsWithin(_, _, _)
ListsWithin(n, S, budget) ==
    IF n = 0 THEN {<<>>}
    ELSE UNION {{Append(rest, l) : rest \in ListsWithin(n - 1, S, budget - len),
                                   l \in [1..len -> S]} : len \in 0..budget}

ImportAssignments == ListsWithin(Len(KeySeq), Paths, MaxImports)
CssAssignments == ListsWithin(Len(KeySeq), CssFiles, MaxCss)

KeyIndex(k) == CHOOSE i \in 1..Len(KeySeq) : KeySeq[i] = k

\* Manifests as the build tool writes them: an empty list is left out.
BuiltManifest(imp, css) ==
    [k \in Keys |->
        LET i == KeyIndex(k)
        IN  EntryOf(k, imp[i] # <<>>, imp[i], css[i] # <<>>, css[i])]

EmptyManifest == [k \in {} |-> EntryOf(k, FALSE, <<>>, FALSE, <<>>)]

\* A imports B and C, B and C both list x.css, A lists y.css; the lists of
\* C are written out even when empty.
DiamondManifest ==
    [k \in Keys |->
        IF k = "a.js" THEN EntryOf(k, TRUE, <<"b.js", "c.js">>, TRUE, <<"y.css">>)
        ELSE IF k = "b.js" THEN EntryOf(k, FALSE, <<>>, TRUE, <<"x.css">>)
        ELSE EntryOf(k, TRUE, <<>>, TRUE, <<"x.css">>)]

LegacyManifest ==
    [k \in {"a.js", PolyfillKey} |->
        IF k = "a.js" THEN EntryOf(k, TRUE, <<>>, TRUE, <<"x.css", "x.css">>)
        ELSE EntryOf(k, FALSE, <<>>, FALSE, <<>>)]

\* What open()/json.loads find at DJANGO_VITE_MANIFEST_PATH.
Unreadable == [kind |-> "unreadable"]
Malformed == [kind |-> "malformed"]
Json(m) == [kind |-> "json", value |-> m]

LifecycleFiles ==
    {Unreadable, Malformed} \cup
    {Json(m) : m \in {EmptyManifest, DiamondManifest, LegacyManifest}}

None == [kind |-> "None"]
Dict(m) == [kind |-> "dict", value |-> m]

---------------------------------------------------------------------------
(* Results, URLs and tags. *)

Ok(output) == [kind |-> "ok", output |-> output]
Raise(error) == [kind |-> error, output |-> <<>>]

\* urljoin of the dev server origin with the static prefix and the path.
_generate_vite_server_url(path) == [server |-> "dev", path |-> path]

\* urljoin of the static URL prefix with a built file (through the
\* staticfiles storage when it is installed).
_generate_production_server_url(path) == [server |-> "production", path |-> path]

_generate_script_tag(src, attrs) == [tag |-> "script", attrs |-> attrs, src |-> src]

_generate_stylesheet_tag(href) == [tag |-> "link", rel |-> "stylesheet", href |-> href]

Newline == [tag |-> "newline"]

\* "\n".join(tags): the tags with a newline between neighbours.
RECURSIVE Join(_)
Join(tags) ==
    IF Len(tags) <= 1 THEN tags
    ELSE <<Head(tags), Newline>> \o Join(Tail(tags))

\* Keyword arguments a template passes to a tag: a dict, as a sequence of
\* <<key, value>> pairs with distinct keys.
NoKwargs == <<>>
KwargsSet == {NoKwargs, << <<"type", "text/javascript">> >>}

HasKey(d, key) == \E i \in 1..Len(d) : d[i][1] = key
ValueOf(d, key) == d[CHOOSE i \in 1..Len(d) : d[i][1] = key][2]

\* {**defaults, **kwargs}: a key of defaults keeps its place and takes the
\* caller's value, new keys follow in the caller's order.
MergeAttrs(defaults, kwargs) ==
    [i \in 1..Len(defaults) |->
        IF HasKey(kwargs, defaults[i][1])
        THEN <<defaults[i][1], ValueOf(kwargs, defaults[i][1])>>
        ELSE defaults[i]]
    \o SelectSeq(kwargs, LAMBDA kv : ~HasKey(defaults, kv[1]))

Contains(s, x) == \E i \in 1..Len(s) : s[i] = x

\* "not self._manifest": None and the empty dict are both falsy.
Falsy(manifest) == manifest.kind = "None" \/ DOMAIN manifest.value = {}

NotInManifest(manifest, path) == Falsy(manifest) \/ path \notin DOMAIN manifest.value

---------------------------------------------------------------------------
(* The CSS walk. *)

\* The list generate_vite_asset hands to the walk: a new empty list.
\* Mutation: the list of the walk before, kept by the loader.
KeptAlreadyProcessed == already_processed

NewAlreadyProcessed == <<>>

\* The "css" loop of one entry: a tag for each path not yet in the list, and
\* every path appended to the list.
RECURSIVE CssLoop(_, _, _)
CssLoopAlwaysEmit(css, i, acc) ==
    IF i > Len(css) THEN acc
    ELSE CssLoop(css, i + 1,
            [acc EXCEPT
                !.tags = Append(@, _generate_stylesheet_tag(
                                       _generate_production_server_url(css[i]))),
                !.processed = Append(@, css[i])])

CssLoop(css, i, acc) ==
    IF i > Len(css) THEN acc
    ELSE CssLoop(css, i + 1,
            [acc EXCEPT
                !.tags = IF ~Contains(acc.processed, css[i])
                         THEN Append(@, _generate_stylesheet_tag(
                                            _generate_production_server_url(css[i])))
                         ELSE @,
                !.processed = Append(@, css[i])])

RECURSIVE _generate_css_files_of_asset(_, _, _, _)
RECURSIVE ImportsLoop(_, _, _, _, _)

\* The "imports" loop of one entry; an exception raised by a recursive call
\* ends the loop and is passed on.
ImportsLoop(m, imports, i, acc, depth) ==
    IF i > Len(imports) THEN acc
    ELSE LET sub == _generate_css_files_of_asset(m, imports[i], acc.processed, depth + 1)
         IN  IF sub.kind # "ok" THEN sub
             ELSE ImportsLoop(m, imports, i + 1,
                     [acc EXCEPT !.tags = @ \o sub.tags, !.processed = sub.processed],
                     depth)

\* Mutations of the walk: own css before the imports; a self-import skipped.
WalkCssFirst(m, path, processed, depth) ==
    IF depth > RecursionLimit
    THEN [kind |-> "RecursionError", tags |-> <<>>, processed |-> processed]
    ELSE IF path \notin DOMAIN m
    THEN [kind |-> "KeyError", tags |-> <<>>, processed |-> processed]
    ELSE LET manifest_entry == m[path]
             start == [kind |-> "ok", tags |-> <<>>, processed |-> processed]
             own == IF "css" \in DOMAIN manifest_entry
                    THEN CssLoop(manifest_entry.css, 1, start)
                    ELSE start
         IN  IF "imports" \in DOMAIN manifest_entry
             THEN ImportsLoop(m, manifest_entry.imports, 1, own, depth)
             ELSE own

WalkSkipSelfImport(m, path, processed, depth) ==
    IF depth > RecursionLimit
    THEN [kind |-> "RecursionError", tags |-> <<>>, processed |-> processed]
    ELSE IF path \notin DOMAIN m
    THEN [kind |-> "KeyError", tags |-> <<>>, processed |-> processed]
    ELSE LET manifest_entry == m[path]
             start == [kind |-> "ok", tags |-> <<>>, processed |-> processed]
             imported == IF "imports" \in DOMAIN manifest_entry
                         THEN ImportsLoop(m,
                                  SelectSeq(manifest_entry.imports, LAMBDA p : p # path),
                                  1, start, depth)
                         ELSE start
         IN  IF imported.kind # "ok" THEN imported
             ELSE IF "css" \in DOMAIN manifest_entry
             THEN CssLoop(manifest_entry.css, 1, imported)
             ELSE imported

\* _generate_css_files_of_asset(path, already_processed): the tags, and the
\* list as the call leaves it.  self._manifest[path] raises KeyError for a
\* path that is no key; a call deeper than the recursion limit raises
\* RecursionError.
_generate_css_files_of_asset(m, path, processed, depth) ==
    IF depth > RecursionLimit
    THEN [kind |-> "RecursionError", tags |-> <<>>, processed |-> processed]
    ELSE IF path \notin DOMAIN m
    THEN [kind |-> "KeyError", tags |-> <<>>, processed |-> processed]
    ELSE LET manifest_entry == m[path]
             start == [kind |-> "ok", tags |-> <<>>, processed |-> processed]
             imported == IF "imports" \in DOMAIN manifest_entry
                         THEN ImportsLoop(m, manifest_entry.imports, 1, start, depth)
                         ELSE start
         IN  IF imported.kind # "ok" THEN imported
             ELSE IF "css" \in DOMAIN manifest_entry
             THEN CssLoop(manifest_entry.css, 1, imported)
             ELSE imported

---------------------------------------------------------------------------
(* The methods of DjangoViteAssetLoader, as functions of the settings, of  *)
(* self._manifest and of the arguments.                                    *)

WS_CLIENT_URL == "@vite/client"
REACT_REFRESH_URL == "@react-refresh"

\* settings.DJANGO_VITE_LEGACY_POLYFILLS_MOTIF in path
HasPolyfillsMotif(path) == path = PolyfillKey

\* The walk generate_vite_asset starts for path.
CssOfAsset(manifest, path) ==
    _generate_css_files_of_asset(manifest.value, path, NewAlreadyProcessed, 1)

GenerateScriptFirst(dev, manifest, path, kwargs) ==
    IF dev
    THEN Ok(<<_generate_script_tag(_generate_vite_server_url(path),
                                   MergeAttrs(<< <<"type", "module">> >>, kwargs))>>)
    ELSE IF NotInManifest(manifest, path) THEN Raise("AssetNotFoundError")
    ELSE LET css == CssOfAsset(manifest, path)
             script == _generate_script_tag(
                           _generate_production_server_url(manifest.value[path].file),
                           MergeAttrs(<< <<"type", "module">>, <<"crossorigin", "">> >>,
                                      kwargs))
         IN  IF css.kind # "ok" THEN Raise(css.kind)
             ELSE Ok(Join(<<script>> \o css.tags))

generate_vite_asset(dev, manifest, path, kwargs) ==
    IF dev
    THEN Ok(<<_generate_script_tag(_generate_vite_server_url(path),
                                   MergeAttrs(<< <<"type", "module">> >>, kwargs))>>)
    ELSE IF NotInManifest(manifest, path) THEN Raise("AssetNotFoundError")
    ELSE LET css == CssOfAsset(manifest, path)
             script == _generate_script_tag(
                           _generate_production_server_url(manifest.value[path].file),
                           MergeAttrs(<< <<"type", "module">>, <<"crossorigin", "">> >>,
                                      kwargs))
         IN  IF css.kind # "ok" THEN Raise(css.kind)
             ELSE Ok(Join(css.tags \o <<script>>))

UrlWithoutKeyCheck(dev, manifest, path) ==
    IF dev THEN Ok(<<_generate_vite_server_url(path)>>)
    ELSE IF Falsy(manifest) THEN Raise("AssetNotFoundError")
    ELSE IF path \notin DOMAIN manifest.value THEN Raise("KeyError")
    ELSE Ok(<<_generate_production_server_url(manifest.value[path].file)>>)

generate_vite_asset_url(dev, manifest, path) ==
    IF dev THEN Ok(<<_generate_vite_server_url(path)>>)
    ELSE IF NotInManifest(manifest, path) THEN Raise("AssetNotFoundError")
    ELSE Ok(<<_generate_production_server_url(manifest.value[path].file)>>)

\* The first key, in the order of the file, that carries the motif.
PolyfillMatches(m) ==
    SelectSeq(ManifestOrder, LAMBDA k : k \in DOMAIN m /\ HasPolyfillsMotif(k))

generate_vite_legacy_polyfills(dev, manifest, kwargs) ==
    IF dev THEN Ok(<<>>)
    ELSE IF manifest.kind = "None" THEN Raise("AttributeError")
    ELSE LET found == PolyfillMatches(manifest.value)
         IN  IF found = <<>> THEN Raise("PolyfillNotFoundError")
             ELSE Ok(<<_generate_script_tag(
                          _generate_production_server_url(manifest.value[found[1]].file),
                          MergeAttrs(<< <<"nomodule", "">>, <<"crossorigin", "">> >>,
                                     kwargs))>>)

generate_vite_legacy_asset(dev, manifest, path, kwargs) ==
    IF dev THEN Ok(<<>>)
    ELSE IF NotInManifest(manifest, path) THEN Raise("AssetNotFoundError")
    ELSE Ok(<<_generate_script_tag(
                 _generate_production_server_url(manifest.value[path].file),
                 MergeAttrs(<< <<"nomodule", "">>, <<"crossorigin", "">> >>, kwargs))>>)

generate_vite_ws_client(dev, kwargs) ==
    IF ~dev THEN Ok(<<>>)
    ELSE Ok(<<_generate_script_tag(_generate_vite_server_url(WS_CLIENT_URL),
                                   MergeAttrs(<< <<"type", "module">> >>, kwargs))>>)

generate_vite_react_refresh_url(dev) ==
    IF ~dev THEN Ok(<<>>)
    ELSE Ok(<<[tag |-> "script", attrs |-> << <<"type", "module">> >>,
               imports |-> _generate_vite_server_url(REACT_REFRESH_URL)]>>)

\* _parse_manifest: what open() and json.loads make of the file.
_parse_manifest(f) ==
    IF f.kind = "json" THEN [error |-> FALSE, _manifest |-> Dict(f.value)]
    ELSE [error |-> TRUE, _manifest |-> None]

\* Mutations of instance(): the manifest parsed in dev mode too; the manifest
\* parsed again by every call.
InstanceParsesInDev(inst, manifest, n, dev, f) ==
    IF inst = "None"
    THEN LET parsed == _parse_manifest(f)
         IN  [error |-> parsed.error, _instance |-> "DjangoViteAssetLoader",
              _manifest |-> parsed._manifest, reads |-> n + 1]
    ELSE [error |-> FALSE, _instance |-> inst, _manifest |-> manifest, reads |-> n]

InstanceParsesAgain(inst, manifest, n, dev, f) ==
    IF dev
    THEN [error |-> FALSE, _instance |-> "DjangoViteAssetLoader",
          _manifest |-> None, reads |-> n]
    ELSE LET parsed == _parse_manifest(f)
         IN  [error |-> parsed.error, _instance |-> "DjangoViteAssetLoader",
              _manifest |-> parsed._manifest, reads |-> n + 1]

\* instance(): cls._instance and its _manifest are set before the manifest
\* is parsed, so an exception of _parse_manifest leaves them set.
instance(inst, manifest, n, dev, f) ==
    IF inst = "None"
    THEN IF ~dev
         THEN LET parsed == _parse_manifest(f)
              IN  [error |-> parsed.error, _instance |-> "DjangoViteAssetLoader",
                   _manifest |-> parsed._manifest, reads |-> n + 1]
         ELSE [error |-> FALSE, _instance |-> "DjangoViteAssetLoader",
               _manifest |-> None, reads |-> n]
    ELSE [error |-> FALSE, _instance |-> inst, _manifest |-> manifest, reads |-> n]

---------------------------------------------------------------------------
(* State and template tags. *)

\* last: the latest call, its arguments, whether the loader's method ran
\* (instance() did not raise) and what the call returned or raised.
\* probe: some call made before the latest one, kept for comparison.
\* already_processed: the list of the latest CSS walk, as the walk left it.
NoCall ==
    [op |-> "none", path |-> "", kwargs |-> NoKwargs, ran |-> FALSE, result |-> Ok(<<>>)]

InitLoader ==
    /\ _instance = "None"
    /\ _manifest = None
    /\ reads = 0
    /\ already_processed = <<>>
    /\ last = NoCall
    /\ probe = NoCall

Init ==
    /\ DEV_MODE \in BOOLEAN
    /\ file \in LifecycleFiles
    /\ InitLoader

InitWalk ==
    /\ DEV_MODE = FALSE
    /\ \E imp \in ImportAssignments, css \in CssAssignments :
           file = Json(BuiltManifest(imp, css))
    /\ InitLoader

\* What DjangoViteAssetLoader.instance() does in the current state.
Got == instance(_instance, _manifest, reads, DEV_MODE, file)

\* A template tag that goes through DjangoViteAssetLoader.instance(): the
\* loader's method is called, with result returned, unless instance() raises.
ThroughInstance(op, path, kwargs, returned) ==
    LET got == Got
    IN  /\ _instance' = got._instance
        /\ _manifest' = got._manifest
        /\ reads' = got.reads
        /\ last' = [op |-> op, path |-> path, kwargs |-> kwargs, ran |-> ~got.error,
                    result |-> IF got.error THEN Raise("ManifestLoadError")
                               ELSE returned]
        /\ probe' \in {probe, last}
        /\ UNCHANGED <<DEV_MODE, file>>

\* DjangoViteAssetLoader.instance(), called on its own.
Instance ==
    LET got == Got
    IN  /\ _instance' = got._instance
        /\ _manifest' = got._manifest
        /\ reads' = got.reads
        /\ last' = [op |-> "instance", path |-> "", kwargs |-> NoKwargs, ran |-> FALSE,
                    result |-> IF got.error THEN Raise("ManifestLoadError") ELSE Ok(<<>>)]
        /\ probe' \in {probe, last}
        /\ UNCHANGED <<DEV_MODE, file, already_processed>>

vite_asset(path, kwargs) ==
    /\ ThroughInstance("vite_asset", path, kwargs,
                       generate_vite_asset(DEV_MODE, Got._manifest, path, kwargs))
    /\ already_processed' =
           IF last'.ran /\ ~DEV_MODE /\ ~NotInManifest(_manifest', path)
           THEN CssOfAsset(_manifest', path).processed
           ELSE already_processed

ViteAsset == \E path \in Paths, kwargs \in KwargsSet : vite_asset(path, kwargs)

\* {% vite_asset path %} for a key of the manifest, with no extra attributes.
ViteAssetOfEntry == \E path \in Keys : vite_asset(path, NoKwargs) /\ probe' = probe

ViteAssetUrl ==
    \E path \in Paths :
        /\ ThroughInstance("vite_asset_url", path, NoKwargs,
                           generate_vite_asset_url(DEV_MODE, Got._manifest, path))
        /\ UNCHANGED already_processed

ViteLegacyPolyfills ==
    \E kwargs \in KwargsSet :
        /\ ThroughInstance("vite_legacy_polyfills", "", kwargs,
                           generate_vite_legacy_polyfills(DEV_MODE, Got._manifest, kwargs))
        /\ UNCHANGED already_processed

ViteLegacyAsset ==
    \E path \in Paths, kwargs \in KwargsSet :
        /\ ThroughInstance("vite_legacy_asset", path, kwargs,
                           generate_vite_legacy_asset(DEV_MODE, Got._manifest, path, kwargs))
        /\ UNCHANGED already_processed

\* The two tags that call a classmethod and never instance().
ViteHmrClient ==
    \E kwargs \in KwargsSet :
        /\ last' = [op |-> "vite_hmr_client", path |-> "", kwargs |-> kwargs, ran |-> TRUE,
                    result |-> generate_vite_ws_client(DEV_MODE, kwargs)]
        /\ probe' \in {probe, last}
        /\ UNCHANGED <<DEV_MODE, file, _instance, _manifest, reads, already_processed>>

ViteReactRefresh ==
    /\ last' = [op |-> "vite_react_refresh", path |-> "", kwargs |-> NoKwargs, ran |-> TRUE,
                result |-> generate_vite_react_refresh_url(DEV_MODE)]
    /\ probe' \in {probe, last}
    /\ UNCHANGED <<DEV_MODE, file, _instance, _manifest, reads, already_processed>>

\* The build writes, removes or damages the manifest file while the process
\* runs.
FileChanges ==
    /\ file' \in LifecycleFiles \ {file}
    /\ UNCHANGED <<DEV_MODE, _instance, _manifest, reads, already_processed, last, probe>>

Next ==
    \/ Instance
    \/ ViteAsset
    \/ ViteAssetUrl
    \/ ViteLegacyPolyfills
    \/ ViteLegacyAsset
    \/ ViteHmrClient
    \/ ViteReactRefresh
    \/ FileChanges

Spec == Init /\ [][Next]_vars

NextWalk == ViteAssetOfEntry

SpecWalk == InitWalk /\ [][NextWalk]_vars

---------------------------------------------------------------------------
(* The imports graph of a manifest, and what a call returned.              *)

Range(s) == {s[i] : i \in 1..Len(s)}

ImportsOf(m, k) ==
    IF k \in DOMAIN m /\ "imports" \in DOMAIN m[k] THEN Range(m[k].imports) ELSE {}

CssListedBy(m, k) ==
    IF k \in DOMAIN m /\ "css" \in DOMAIN m[k] THEN Range(m[k].css) ELSE {}

RECURSIVE Closure(_, _)
Closure(m, S) ==
    LET T == S \cup UNION {ImportsOf(m, k) : k \in S}
    IN  IF T = S THEN S ELSE Closure(m, T)

\* The paths the imports edges lead to from p, p included.
Reachable(m, p) == Closure(m, {p})

\* Some import reachable from p names a path that is no key.
DanglingFrom(m, p) == \E k \in Reachable(m, p) : k \notin DOMAIN m

\* Some entry reachable from p imports itself, directly or not.
CycleFrom(m, p) == \E k \in Reachable(m, p) : k \in Closure(m, ImportsOf(m, k))

Acyclic(m) == \A k \in DOMAIN m : ~CycleFrom(m, k)

CssReachable(m, p) == UNION {CssListedBy(m, k) : k \in Reachable(m, p)}

\* The css paths in the order a depth-first walk meets them, repeats kept:
\* the imports in listed order, each with its whole subtree, then the
\* entry's own css.
RECURSIVE Discovered(_, _)
RECURSIVE DiscoveredOfAll(_, _)
DiscoveredOfAll(m, imports) ==
    IF imports = <<>> THEN <<>>
    ELSE Discovered(m, Head(imports)) \o DiscoveredOfAll(m, Tail(imports))

Discovered(m, p) ==
    (IF "imports" \in DOMAIN m[p] THEN DiscoveredOfAll(m, m[p].imports) ELSE <<>>)
    \o (IF "css" \in DOMAIN m[p] THEN m[p].css ELSE <<>>)

\* s without the later occurrences of its items.
FirstOccurrences(s) ==
    LET keep == {i \in 1..Len(s) : \A j \in 1..(i - 1) : s[j] # s[i]}
        nth(n) == CHOOSE i \in keep : Cardinality({j \in keep : j < i}) = n - 1
    IN  [n \in 1..Cardinality(keep) |-> s[nth(n)]]

LinkTags(output) == SelectSeq(output, LAMBDA t : t.tag = "link")
ScriptTags(output) == SelectSeq(output, LAMBDA t : t.tag = "script")
Hrefs(output) == [i \in 1..Len(LinkTags(output)) |-> LinkTags(output)[i].href]
ProductionUrls(s) == [i \in 1..Len(s) |-> _generate_production_server_url(s[i])]

\* The latest call was {% vite_asset path %} in production, for a key of the
\* loaded manifest.
EntryCall ==
    /\ ~DEV_MODE
    /\ last.op = "vite_asset"
    /\ last.ran
    /\ _manifest.kind = "dict"
    /\ last.path \in DOMAIN _manifest.value

Loaded == _manifest.value

---------------------------------------------------------------------------
(* Claims about the CSS walk, checked under SpecWalk.                      *)

NoRepeats(s) == \A i, j \in 1..Len(s) : s[i] = s[j] => i = j

OneLinkPerCssFile ==
    /\ last.result.kind = "ok"
    /\ NoRepeats(Hrefs(last.result.output))
    /\ Range(Hrefs(last.result.output)) =
           {_generate_production_server_url(f) : f \in CssReachable(Loaded, last.path)}

\* C1 as stated: for every manifest with acyclic imports and every entry of
\* it, the call emits exactly one <link> per distinct CSS file listed by the
\* entries reachable from the entry, and no other <link>.
C1_AsStated == (EntryCall /\ Acyclic(Loaded)) => OneLinkPerCssFile

\* C1 amended: the same, for manifests in which, besides, every import
\* reachable from the entry is a key of the manifest.
C1_OneLinkPerCssFile ==
    (EntryCall /\ Acyclic(Loaded) /\ ~DanglingFrom(Loaded, last.path))
        => OneLinkPerCssFile

\* A CSS file listed by two different entries reachable from the entry, and
\* the call has emitted its tags.
C1_Witness ==
    /\ EntryCall
    /\ Acyclic(Loaded)
    /\ ~DanglingFrom(Loaded, last.path)
    /\ \E j, k \in Reachable(Loaded, last.path) :
           j # k /\ CssListedBy(Loaded, j) \cap CssListedBy(Loaded, k) # {}
    /\ Len(LinkTags(last.result.output)) = 1

\* C2: the stylesheet tags of a call come in first-discovered order of the
\* walk: for every entry visited the css of its imports (in listed order,
\* each import's subtree before the next import) before the entry's own css,
\* in listed order.
C2_FirstDiscoveredOrder ==
    (EntryCall /\ last.result.kind = "ok")
        => Hrefs(last.result.output) =
               ProductionUrls(FirstOccurrences(Discovered(Loaded, last.path)))

\* An entry with css of its own and an import with other css, both emitted.
C2_Witness ==
    /\ EntryCall
    /\ last.result.kind = "ok"
    /\ ImportsOf(Loaded, last.path) # {}
    /\ CssListedBy(Loaded, last.path) # {}
    /\ Len(LinkTags(last.result.output)) = 2

\* C3: for an entry of a well-formed manifest (no absent import and no
\* import cycle reachable from it) the call emits exactly one script tag,
\* for the production URL of the entry's own file, after all stylesheet tags
\* of the newline-joined output.
C3_OneScriptTagLast ==
    (EntryCall /\ ~DanglingFrom(Loaded, last.path) /\ ~CycleFrom(Loaded, last.path))
        => LET out == last.result.output
           IN  /\ last.result.kind = "ok"
               /\ Len(ScriptTags(out)) = 1
               /\ out[Len(out)].tag = "script"
               /\ out[Len(out)].src =
                      _generate_production_server_url(Loaded[last.path].file)
               /\ \A i \in 1..(Len(out) - 1) :
                      IF i % 2 = 1 THEN out[i].tag = "link" ELSE out[i] = Newline

\* An entry that imports another entry, with stylesheet tags before the
\* script tag.
C3_Witness ==
    /\ EntryCall
    /\ ~DanglingFrom(Loaded, last.path)
    /\ ~CycleFrom(Loaded, last.path)
    /\ ImportsOf(Loaded, last.path) \ {last.path} # {}
    /\ Len(LinkTags(last.result.output)) = 2
    /\ Len(ScriptTags(last.result.output)) = 1

\* C8 as stated: a call for a present entry whose imports, directly or
\* transitively, name a path that is no key of the manifest ends with
\* AssetNotFoundError, as a call for a missing entry does.
C8_AsStated ==
    (EntryCall /\ DanglingFrom(Loaded, last.path) /\ ~CycleFrom(Loaded, last.path))
        => last.result.kind = "AssetNotFoundError"

\* The recursion of the walk is unbounded when the result is the
\* interpreter's RecursionError.
Unbounded == last.result.kind = "RecursionError"

\* C9 as stated: the walk terminates exactly when no import cycle is
\* reachable from the entry.
C9_AsStated == EntryCall => (~Unbounded <=> ~CycleFrom(Loaded, last.path))

\* C9 amended: the call returns a result exactly when neither an import
\* cycle nor an absent import is reachable from the entry; when a cycle is
\* reachable it never returns a result: it ends with the KeyError of an
\* absent import or recurses without bound, the latter whenever no absent
\* import is reachable.
C9_ReturnsIffNoCycle ==
    EntryCall =>
        /\ last.result.kind = "ok" <=>
               (~CycleFrom(Loaded, last.path) /\ ~DanglingFrom(Loaded, last.path))
        /\ CycleFrom(Loaded, last.path) => last.result.kind \in {"RecursionError", "KeyError"}
        /\ (CycleFrom(Loaded, last.path) /\ ~DanglingFrom(Loaded, last.path)) => Unbounded
        /\ (DanglingFrom(Loaded, last.path) /\ ~CycleFrom(Loaded, last.path))
               => last.result.kind = "KeyError"

\* A cycle reachable from the entry, a css path already on the list, and
\* the recursion unbounded all the same.
C9_Witness ==
    /\ EntryCall
    /\ CycleFrom(Loaded, last.path)
    /\ Unbounded
    /\ already_processed # <<>>

---------------------------------------------------------------------------
(* Claims about the loader and its manifest, checked under Spec.           *)

LookupOps == {"vite_asset", "vite_asset_url", "vite_legacy_asset"}
ManifestOps == LookupOps \cup {"vite_legacy_polyfills"}

\* C4 as stated: in production, once the manifest could not be read or
\* parsed, no instance() call returns a loader whose manifest is not loaded
\* and no method of the loader runs against an unloaded manifest.
C4_AsStated ==
    ~DEV_MODE =>
        /\ (last.op = "instance" /\ last.result.kind = "ok") => _manifest.kind = "dict"
        /\ (last.op \in ManifestOps /\ last.ran) => _manifest.kind = "dict"

\* C5: in production, vite_asset, vite_asset_url and vite_legacy_asset called
\* with a path that is no key of the loaded manifest (the empty manifest
\* included) raise AssetNotFoundError and return nothing.
C5_MissingPathRaises ==
    (/\ ~DEV_MODE
     /\ last.op \in LookupOps
     /\ last.ran
     /\ _manifest.kind = "dict"
     /\ last.path \notin DOMAIN Loaded)
        => last.result = Raise("AssetNotFoundError")

\* vite_asset_url for a path that a non-empty loaded manifest lacks.
C5_Witness ==
    /\ ~DEV_MODE
    /\ last.op = "vite_asset_url"
    /\ last.ran
    /\ _manifest.kind = "dict"
    /\ DOMAIN Loaded # {}
    /\ last.path \notin DOMAIN Loaded
    /\ last.result.kind = "AssetNotFoundError"

\* C6: in dev mode the manifest file is never read and no manifest is held,
\* and vite_asset returns, for any path and whatever the file holds, exactly
\* one script tag for the dev server URL of the path, with type="module"
\* when the caller passes no type of its own.
C6_DevModeIgnoresManifest ==
    DEV_MODE =>
        /\ reads = 0
        /\ _manifest = None
        /\ last.op = "vite_asset" =>
               LET out == last.result.output
               IN  /\ last.ran
                   /\ last.result.kind = "ok"
                   /\ Len(out) = 1
                   /\ out[1].tag = "script"
                   /\ out[1].src = _generate_vite_server_url(last.path)
                   /\ ~HasKey(last.kwargs, "type") =>
                          (HasKey(out[1].attrs, "type")
                              /\ ValueOf(out[1].attrs, "type") = "module")

\* vite_asset in dev mode, for a path no manifest holds, with the manifest
\* file unreadable.
C6_Witness ==
    /\ DEV_MODE
    /\ last.op = "vite_asset"
    /\ last.kwargs = NoKwargs
    /\ last.path = MissingPath
    /\ file = Unreadable
    /\ _instance # "None"
    /\ last.result.kind = "ok"

SameCall(c, d) == c.op = d.op /\ c.path = d.path /\ c.kwargs = d.kwargs

\* C7: a method of the loader called twice with the same arguments returns
\* the same output, whatever was called in between; the CSS emitted by an
\* earlier vite_asset is emitted again by a later one.
C7_SameCallSameOutput ==
    (probe.ran /\ last.ran /\ SameCall(probe, last)) => probe.result = last.result

\* Two vite_asset calls for the same entry, the later one emitting
\* stylesheet tags again.
C7_Witness ==
    /\ ~DEV_MODE
    /\ probe.ran
    /\ last.ran
    /\ SameCall(probe, last)
    /\ last.op = "vite_asset"
    /\ last.result.kind = "ok"
    /\ Len(LinkTags(last.result.output)) = 2
    /\ already_processed # <<>>

\* C10: the manifest file is read at most once, by the first instance() call
\* in production; once the loader exists no call, instance() and the tags
\* included, reads the file again or changes the loader or its manifest.
C10_LoadedOnce ==
    /\ [](reads <= 1)
    /\ [][/\ reads' # reads => (_instance = "None" /\ ~DEV_MODE /\ reads' = reads + 1)
          /\ _instance # "None" =>
                 (_instance' = _instance /\ _manifest' = _manifest /\ reads' = reads)]_vars

\* A later instance() call returns the loader with the manifest it loaded,
\* though the file holds something else by now.
C10_Witness ==
    /\ ~DEV_MODE
    /\ probe.op = "vite_asset"
    /\ probe.ran
    /\ last.op = "instance"
    /\ last.result.kind = "ok"
    /\ reads = 1
    /\ _manifest.kind = "dict"
    /\ file # Json(Loaded)

====
